---- MODULE Spec2Model ----
(***************************************************************************)
(* Model of presidential-elections/utils/gpapproximation.py:               *)
(* make_sum_zero_hh, make_centered_gp_eigendecomp and make_gp_basis.       *)
(*                                                                         *)
(* One behaviour is one call of make_gp_basis on a model context.  The     *)
(* call walks through the regions of make_centered_gp_eigendecomp:         *)
(* kernel branch (validation + covariance), zero-sum projection, eigh,     *)
(* precision cutoff, variance truncation, and finally the coordinate       *)
(* registration of make_gp_basis.  An exception ends the call in           *)
(* pc = "raised".                                                          *)
(*                                                                         *)
(* Arguments.  time and the parameters the kernel branch reads (kernel,    *)
(* lengthscale, variance_weight, period) are bound by Call.  zerosum,      *)
(* variance_limit and key are never assigned and are read once, at lines   *)
(* 121, 140 and 174: each is bound by the action that reads it, which      *)
(* yields the same calls as binding it on entry.                           *)
(*                                                                         *)
(* Numbers.  All arithmetic is exact integer arithmetic on fractions:      *)
(*   - time points are integers (numeric dtype; the datetime branch of     *)
(*     make_gp_basis, lines 162-170, is not taken for them);               *)
(*   - a covariance matrix is [num, den, nan]: integer numerators over one *)
(*     positive denominator, or NaN;                                       *)
(*   - np.exp is a table in thousandths (ExpNeg);                          *)
(*   - variance_weight entries are multiples of 1/WDen;                    *)
(*   - variance_limit is a percentage 0..100;                              *)
(*   - the Householder matrix lives in Q(sqrt N), elements <<p, q>>        *)
(*     standing for p + q*sqrt(N);                                         *)
(*   - eigenvalues are in units of 1/cov.den, eigenvectors are kept up to  *)
(*     normalisation (direction only), and a basis column                  *)
(*     vec * sqrt(val) is the record [val, vec].                           *)
(***************************************************************************)
EXTENDS Integers, Sequences, FiniteSets, TLC

VARIABLES pc, time, gp_config, key, kernel, lengthscale, variance_limit, variance_weight,
          zerosum, period, cov, vals, vecs, gp_basis_funcs, result, err, coords

vars == <<pc, time, gp_config, key, kernel, lengthscale, variance_limit, variance_weight,
          zerosum, period, cov, vals, vecs, gp_basis_funcs, result, err, coords>>

(***************************************************************************)
(* Bounds of the model.                                                    *)
(***************************************************************************)
\* largest number of time points
MaxN == 2
\* largest number of lengthscales / variance weights in a list
MaxLs == 2

\* time values, lengthscale values, weights (in units of 1/WDen), limits (%)
TimeVals == {-1, 0, 1}
LsVals == {1, 2}
WVals == {1, 2}
LimitVals == {50, 100}
PeriodVals == {2}
KernelVals == {"gaussian", "periodic", "randomwalk", "matern"}
KeyVals == {"pop", "None"}
\* entries of the (unnormalised, integer) eigenvectors
VecVals == {-2, -1, 0, 1, 2}

\* denominator of the variance weights: a weight w stands for w / WDen
WDen == 2
\* denominator of the exp table: ExpNeg(k) stands for ExpNeg(k) / ExpDen
ExpDen == 1000

(***************************************************************************)
(* Python values.                                                          *)
(***************************************************************************)
\* Optional[T]: None is <<>>, a value x is <<x>>
None == <<>>
Some(x) == <<x>>
IsNone(o) == o = <<>>
Get(o) == o[1]

\* a lengthscale is a scalar (int/float) or a list
Scalar(x) == [scalar |-> TRUE, ls |-> <<x>>]
List(xs) == [scalar |-> FALSE, ls |-> xs]

SeqsUpTo(S, lo, hi) == UNION {[1..n -> S] : n \in lo..hi}

RECURSIVE SeqSum(_)
SeqSum(s) == IF s = <<>> THEN 0 ELSE s[1] + SeqSum(Tail(s))

Abs(x) == IF x < 0 THEN -x ELSE x
Min(a, b) == IF a <= b THEN a ELSE b

RECURSIVE Gcd(_, _)
Gcd(a, b) == IF b = 0 THEN Abs(a) ELSE Gcd(b, a % b)

Reverse(s) == [i \in 1..Len(s) |-> s[Len(s) + 1 - i]]

\* s[len(s) - n :] for 0 <= n <= len(s): the last n elements
LastN(s, n) == [i \in 1..n |-> s[Len(s) - n + i]]

\* s[-n:] as Python slices it: -0 is 0, so n = 0 selects everything
NegSlice(s, n) == IF n = 0 \/ n >= Len(s) THEN s ELSE LastN(s, n)

\* truthiness of `variance_weight` (None and the empty list are falsy)
Truthy(vw) == ~IsNone(vw) /\ Len(Get(vw)) > 0

Raise(type, msg) == [type |-> type, msg |-> msg]
NoErr == [type |-> "", msg |-> ""]

NoCov == [num |-> <<>>, den |-> 1, nan |-> FALSE]
Mat(num, den) == [num |-> num, den |-> den, nan |-> FALSE]
NaNCov(n) == [num |-> [i \in 1..n |-> [j \in 1..n |-> 0]], den |-> 1, nan |-> TRUE]

(***************************************************************************)
(* Kernels (lines 63-119).                                                 *)
(***************************************************************************)
\* round(1000 * exp(-k / 128)) for the exponents the kernels produce
ExpNeg(k) ==
  CASE k = 0 -> 1000
    [] k = 1 -> 992
    [] k = 4 -> 969
    [] k = 16 -> 882
    [] k = 64 -> 607
    [] k = 256 -> 135
    [] OTHER -> 0

\* (variant) the difference taken without its absolute value
IsCloseToOneSigned(sumNum) == (sumNum - WDen) * 100000000 <= 1001 * WDen

\* np.isclose(variance_weight.sum(), 1.0): |a - 1| <= 1e-8 + 1e-5 * 1,
\* for a = sumNum / WDen
IsCloseToOne(sumNum) == Abs(sumNum - WDen) * 100000000 <= 1001 * WDen

\* np.ones_like(lengthscale): one weight of 1 (= WDen / WDen) per lengthscale
OnesLike(ls) == [k \in 1..Len(ls) |-> WDen]

\* 128 * (((t_i - t_j) / ls) ** 2) / 2
GaussExponent(ti, tj, ls) == (64 * (ti - tj) * (ti - tj)) \div (ls * ls)

RECURSIVE WeightedSum(_, _, _, _, _)
WeightedSum(w, ls, ti, tj, k) ==
  IF k > Min(Len(w), Len(ls)) THEN 0
  ELSE w[k] * ExpNeg(GaussExponent(ti, tj, ls[k])) + WeightedSum(w, ls, ti, tj, k + 1)

\* lines 78-86: cov = sum(w * exp(-dist / 2) for (w, dist) in zip(...)) / len(lengthscale)
GaussianCov(t, ls, w) ==
  Mat([i \in 1..Len(t) |-> [j \in 1..Len(t) |-> WeightedSum(w, ls, t[i], t[j], 1)]],
      WDen * ExpDen * Len(ls))

\* sin(pi * d / period) ** 2 for the periods 1 and 2 and integer d
SinSq(d, p) == IF d % p = 0 THEN 0 ELSE 1

\* lines 101-102: cov = exp(-2 * (sin(pi * (t_i - t_j) / period) / lengthscale) ** 2)
PeriodicCov(t, ls, p) ==
  Mat([i \in 1..Len(t) |-> [j \in 1..Len(t) |->
         ExpNeg((256 * SinSq(t[i] - t[j], p)) \div (ls * ls))]],
      ExpDen)

\* line 114: cov = np.minimum(X, X.T)
RandomwalkCov(t) ==
  Mat([i \in 1..Len(t) |-> [j \in 1..Len(t) |-> Min(t[i], t[j])]], 1)

\* (variant) the Gaussian branch as the fall-through for every other name
IsGaussianOrOther(k) == k \notin {"periodic", "randomwalk"}

\* the tests of the if / elif chain, lines 63, 89 and 105
IsGaussian(k) == k = "gaussian"
IsPeriodic(k) == k = "periodic"
IsRandomwalk(k) == k = "randomwalk"

\* np.testing.assert_allclose(lengthscale, 1) passes (and returns None)
AllClose1(lsc) == \A k \in 1..Len(lsc.ls) : lsc.ls[k] = 1

(***************************************************************************)
(* Exact arithmetic in Q(sqrt N): <<p, q>> is p + q * sqrt(N).             *)
(***************************************************************************)
\* the integer square root of n when n is a perfect square, else 0
Root(n) == IF \E r \in 1..n : r * r = n THEN CHOOSE r \in 1..n : r * r = n ELSE 0

\* one representative per value: when sqrt(N) is an integer it is folded into p
ZCanon(z, n) == IF Root(n) # 0 THEN <<z[1] + z[2] * Root(n), 0>> ELSE z
ZAdd(a, b, n) == ZCanon(<<a[1] + b[1], a[2] + b[2]>>, n)
ZSub(a, b, n) == ZCanon(<<a[1] - b[1], a[2] - b[2]>>, n)
ZMul(a, b, n) == ZCanon(<<a[1] * b[1] + n * a[2] * b[2], a[1] * b[2] + a[2] * b[1]>>, n)
ZInt(k) == <<k, 0>>
ZConj(a) == <<a[1], -a[2]>>
\* a * conj(a), an integer
ZNorm(a, n) == a[1] * a[1] - n * a[2] * a[2]

RECURSIVE ZDot(_, _, _, _)
\* sum over k' >= k of f[k'] * g[k']
ZDot(f, g, k, n) ==
  IF k > Len(f) THEN ZInt(0) ELSE ZAdd(ZMul(f[k], g[k], n), ZDot(f, g, k + 1, n), n)

Column(A, j) == [i \in 1..Len(A) |-> A[i][j]]
Transpose(A) == [i \in 1..Len(A) |-> Column(A, i)]
ZMatMul(A, B, n) ==
  [i \in 1..Len(A) |-> [j \in 1..Len(A) |-> ZDot(A[i], Column(B, j), 1, n)]]

RECURSIVE IDot(_, _, _)
IDot(f, g, k) == IF k > Len(f) THEN 0 ELSE f[k] * g[k] + IDot(f, g, k + 1)
IMatMul(A, B) == [i \in 1..Len(A) |-> [j \in 1..Len(A) |-> IDot(A[i], Column(B, j), 1)]]
MatVec(A, v) == [i \in 1..Len(A) |-> IDot(A[i], v, 1)]

RECURSIVE GcdSeq(_)
GcdSeq(s) == IF s = <<>> THEN 0 ELSE Gcd(s[1], GcdSeq(Tail(s)))
RECURSIVE Flatten(_)
Flatten(A) == IF A = <<>> THEN <<>> ELSE A[1] \o Flatten(Tail(A))

\* the fraction num / den in lowest terms (the value is unchanged)
Reduce(num, den) ==
  LET g == Gcd(GcdSeq(Flatten(num)), den) IN
  Mat([i \in 1..Len(num) |-> [j \in 1..Len(num) |-> num[i][j] \div g]], den \div g)

(***************************************************************************)
(* make_sum_zero_hh (lines 13-23) and the projection (lines 121-130).      *)
(***************************************************************************)
\* lines 17-21: v = e_1 - a with a = ones / sqrt(N), times N:
\* N * v_i = N * [i = 1] - sqrt(N)
HhDirection(n) == [i \in 1..n |-> ZCanon(<<IF i = 1 THEN n ELSE 0, -1>>, n)]

\* lines 22-23: v /= sqrt(v @ v); Q = eye(N) - 2 * outer(v, v), that is
\* Q = (eye * S - 2 * outer(u, u)) / S for u = HhDirection and S = u @ u.
\* With S * conj(S) = ZNorm(S) the denominator is an integer.  S = 0 (N = 1)
\* divides 0 by 0: every entry is NaN.
MakeSumZeroHh(n) ==
  LET u == HhDirection(n)
      S == ZDot(u, u, 1, n)
  IN IF S = ZInt(0) THEN NaNCov(n)
     ELSE Mat([i \in 1..n |-> [j \in 1..n |->
                 ZMul(ZSub(IF i = j THEN S ELSE ZInt(0),
                           ZMul(ZInt(2), ZMul(u[i], u[j], n), n), n),
                      ZConj(S), n)]],
              ZNorm(S, n))

\* (variant) D = eye(N) with D[0, 0] left at 1
DropNothing(n) == [i \in 1..n |-> [j \in 1..n |-> ZInt(IF i = j THEN 1 ELSE 0)]]

\* lines 123-124: D = eye(N); D[0, 0] = 0
DropMean(n) == [i \in 1..n |-> [j \in 1..n |-> ZInt(IF i = j /\ i # 1 THEN 1 ELSE 0)]]

\* Q.T @ D @ Q, a rational matrix, in lowest terms
Projector(n) ==
  LET Q == MakeSumZeroHh(n)
      P == ZMatMul(ZMatMul(Transpose(Q.num), DropMean(n), n), Q.num, n)
  IN IF Q.nan THEN NaNCov(n)
     ELSE Reduce([i \in 1..n |-> [j \in 1..n |-> P[i][j][1]]], Q.den * Q.den)

\* the projector for each number of time points
Projectors == [n \in 1..MaxN |-> Projector(n)]

\* line 130: cov = Q.T @ D @ Q @ cov @ Q.T @ D @ Q
ZeroSumCov(c) ==
  LET n == Len(c.num)
      P == Projectors[n]
  IN IF P.nan THEN NaNCov(n)
     ELSE Mat(IMatMul(IMatMul(P.num, c.num), P.num), c.den * P.den * P.den)

(***************************************************************************)
(* linalg.eigh (line 132).  eigh returns the eigenvalues in ascending      *)
(* order and one orthonormal eigenvector per eigenvalue.  The model keeps  *)
(* the matrices whose spectrum is rational with eigenvectors in            *)
(* VecVals, and returns any such decomposition: eigenvalues in     *)
(* units of 1 / den, eigenvectors by direction (primitive integer vector,  *)
(* first non-zero entry positive).                                         *)
(***************************************************************************)
FirstNonZero(v) == CHOOSE i \in 1..Len(v) : v[i] # 0 /\ \A j \in 1..(i - 1) : v[j] = 0

\* the directions of dimension n, for each n
Directions ==
  [n \in 1..MaxN |->
     {v \in [1..n -> VecVals] :
        /\ \E i \in 1..n : v[i] # 0
        /\ v[FirstNonZero(v)] > 0
        /\ GcdSeq(v) = 1}]

\* M v = val * v
IsEigenPair(M, val, v) == MatVec(M, v) = [i \in 1..Len(v) |-> val * v[i]]

\* the eigenvalue of the direction v, if v is an eigenvector: (M v)_i / v_i
Quotient(M, v) == IDot(M[FirstNonZero(v)], v, 1) \div v[FirstNonZero(v)]

EigenPairs(M) ==
  {[val |-> Quotient(M, v), vec |-> v] :
     v \in {w \in Directions[Len(M)] : IsEigenPair(M, Quotient(M, w), w)}}

\* e can follow the eigenpairs d: not smaller, and orthogonal to each
Extends(d, e) ==
  \A m \in 1..Len(d) : d[m].val <= e.val /\ IDot(d[m].vec, e.vec, 1) = 0

RECURSIVE Decompositions(_, _)
\* the sequences of k eigenpairs, ascending in val and pairwise orthogonal
Decompositions(E, k) ==
  IF k = 0 THEN {<<>>}
  ELSE UNION {{Append(d, e) : e \in {x \in E : Extends(d, x)}} :
                d \in Decompositions(E, k - 1)}

Eigh(M) == Decompositions(EigenPairs(M), Len(M))

(***************************************************************************)
(* Precision cutoff (lines 133-138) and truncation (lines 140-146).        *)
(***************************************************************************)
\* (variant) vals <= 0 in place of vals < 0
PrecisionLimitIndsLe(v) == [i \in 1..Len(v) |-> v[i] <= 0]

\* line 133: np.logical_or(vals < 0, np.imag(vals) != 0); eigh's values are real
PrecisionLimitInds(v) == [i \in 1..Len(v) |-> v[i] < 0]

\* line 136: np.where(precision_limit_inds[::-1])[0][0], a 0-based index
Cutoff(v) ==
  LET r == Reverse(PrecisionLimitInds(v)) IN
  (CHOOSE i \in 1..Len(r) : r[i] /\ \A j \in 1..(i - 1) : ~r[j]) - 1

\* lines 135-138 applied to vals or to the columns of vecs
CutPrecision(v, s) ==
  IF \E i \in 1..Len(v) : PrecisionLimitInds(v)[i] THEN LastN(s, Cutoff(v)) ELSE s

\* vals[::-1].cumsum()[i] for the 0-based index i
CumSumDesc(v, i) == SeqSum(LastN(v, i + 1))

\* the 0-based indices where (vals[::-1].cumsum() / vals.sum()) > variance_limit;
\* with vals.sum() = 0 every quotient is NaN and no comparison is true
OverLimit(v, limit) ==
  {i \in 0..(Len(v) - 1) :
     SeqSum(v) # 0 /\ CumSumDesc(v, i) * 100 > limit * SeqSum(v)}

SetMin(S) == CHOOSE x \in S : \A y \in S : x <= y

\* lines 140-144: Some(n_eigs), or None when [0][0] raises IndexError
NEigs(v, limit) ==
  IF limit = 100 THEN Some(Len(v))
  ELSE IF OverLimit(v, limit) = {} THEN None
  ELSE Some(SetMin(OverLimit(v, limit)))

\* line 146: vecs[:, -n_eigs:] * np.sqrt(vals[-n_eigs:])
Basis(v, c, n_eigs) ==
  LET vs == NegSlice(v, n_eigs)
      cs == NegSlice(c, n_eigs)
  IN [i \in 1..Len(cs) |-> [val |-> vs[i], vec |-> cs[i]]]

\* (variant) a range starting at 1
RangeIndexFromOne(n) == [i \in 1..n |-> i]

\* line 175: pd.RangeIndex(n_basis)
RangeIndex(n) == [i \in 1..n |-> i - 1]

\* line 174: f"gp_{key}_basis"
DimName(k) == "gp_" \o k \o "_basis"

(***************************************************************************)
(* The call.                                                               *)
(***************************************************************************)
Times == SeqsUpTo(TimeVals, 1, MaxN)
Lengthscales == {Scalar(x) : x \in LsVals} \cup {List(xs) : xs \in SeqsUpTo(LsVals, 1, MaxLs)}
Weights == {None} \cup {Some(w) : w \in SeqsUpTo(WVals, 0, MaxLs)}
Periods == {None} \cup {Some(p) : p \in PeriodVals}

\* the entries of gp_config that the kernel branch reads
Configs ==
  [lengthscale : Lengthscales, variance_weight : Weights, kernel : KernelVals,
   period : Periods]

\* lines 152-158: the configuration used when gp_config is None; the other
\* parameters take the defaults of the signature (lines 28-33)
DefaultConfig ==
  [lengthscale |-> Scalar(8), variance_limit |-> 99, variance_weight |-> None,
   kernel |-> "gaussian", zerosum |-> FALSE, period |-> None]

Init ==
  /\ pc = "idle"
  /\ time = <<>>
  /\ gp_config = None
  /\ key = ""
  /\ kernel = ""
  /\ lengthscale = Scalar(1)
  /\ variance_limit = 0
  /\ variance_weight = None
  /\ zerosum = FALSE
  /\ period = None
  /\ cov = NoCov
  /\ vals = <<>>
  /\ vecs = <<>>
  /\ gp_basis_funcs = <<>>
  /\ result = None
  /\ err = NoErr
  /\ coords = <<>>

\* make_gp_basis, lines 149-172: resolve gp_config and enter
\* make_centered_gp_eigendecomp(time, **gp_config)
Call ==
  /\ pc = "idle"
  /\ \E t \in Times, g \in {None} \cup {Some(c) : c \in Configs} :
       LET c == IF IsNone(g) THEN DefaultConfig ELSE Get(g) IN
       /\ time' = t
       /\ gp_config' = g
       /\ kernel' = c.kernel
       /\ lengthscale' = c.lengthscale
       /\ variance_weight' = c.variance_weight
       /\ period' = c.period
  /\ pc' = "kernel"
  /\ UNCHANGED <<key, variance_limit, zerosum, cov, vals, vecs, gp_basis_funcs, result,
                 err, coords>>

\* the values gp_config can hold for zerosum and variance_limit
ZerosumChoices == IF IsNone(gp_config) THEN {DefaultConfig.zerosum} ELSE BOOLEAN
LimitChoices == IF IsNone(gp_config) THEN {DefaultConfig.variance_limit} ELSE LimitVals

Fail(e) ==
  /\ pc' = "raised"
  /\ err' = e

\* lines 63-86
GaussianKernel ==
  /\ pc = "kernel"
  /\ IsGaussian(kernel)
  /\ lengthscale' = List(lengthscale.ls)
  /\ IF Truthy(variance_weight)
       THEN LET w == Get(variance_weight) IN
            IF Len(w) # Len(lengthscale.ls)
              THEN /\ Fail(Raise("AssertionError", "same length"))
                   /\ UNCHANGED <<variance_weight, cov>>
            ELSE IF ~IsCloseToOne(SeqSum(w))
              THEN /\ Fail(Raise("AssertionError", "sum to 1"))
                   /\ UNCHANGED <<variance_weight, cov>>
            ELSE /\ cov' = GaussianCov(time, lengthscale.ls, w)
                 /\ pc' = "zerosum"
                 /\ UNCHANGED <<variance_weight, err>>
       ELSE /\ variance_weight' = Some(OnesLike(lengthscale.ls))
            /\ cov' = GaussianCov(time, lengthscale.ls, OnesLike(lengthscale.ls))
            /\ pc' = "zerosum"
            /\ UNCHANGED err
  /\ UNCHANGED <<time, gp_config, key, kernel, variance_limit, zerosum, period, vals, vecs,
                 gp_basis_funcs, result, coords>>

\* lines 89-102
PeriodicKernel ==
  /\ pc = "kernel"
  /\ ~IsGaussian(kernel)
  /\ IsPeriodic(kernel)
  /\ IF lengthscale.scalar
       THEN /\ Fail(Raise("TypeError", "len() of a number"))
            /\ UNCHANGED cov
     ELSE IF Len(lengthscale.ls) > 1
       THEN /\ Fail(Raise("NotImplementedError", "multiple lengthscales"))
            /\ UNCHANGED cov
     ELSE IF Truthy(variance_weight)
       THEN /\ Fail(Raise("NotImplementedError", "variance_weight"))
            /\ UNCHANGED cov
     ELSE IF IsNone(period)
       THEN /\ Fail(Raise("TypeError", "division by None"))
            /\ UNCHANGED cov
     ELSE /\ cov' = PeriodicCov(time, lengthscale.ls[1], Get(period))
          /\ pc' = "zerosum"
          /\ UNCHANGED err
  /\ UNCHANGED <<time, gp_config, key, kernel, lengthscale, variance_limit, variance_weight,
                 zerosum, period, vals, vecs, gp_basis_funcs, result, coords>>

\* lines 105-114
RandomwalkKernel ==
  /\ pc = "kernel"
  /\ ~IsGaussian(kernel)
  /\ ~IsPeriodic(kernel)
  /\ IsRandomwalk(kernel)
  /\ IF ~AllClose1(lengthscale)
       THEN /\ Fail(Raise("AssertionError", "not equal to tolerance"))
            /\ UNCHANGED cov
     ELSE IF Truthy(variance_weight)
       THEN /\ Fail(Raise("NotImplementedError", "variance_weight"))
            /\ UNCHANGED cov
     ELSE /\ cov' = RandomwalkCov(time)
          /\ pc' = "zerosum"
          /\ UNCHANGED err
  /\ UNCHANGED <<time, gp_config, key, kernel, lengthscale, variance_limit, variance_weight,
                 zerosum, period, vals, vecs, gp_basis_funcs, result, coords>>

\* lines 116-119
UnknownKernel ==
  /\ pc = "kernel"
  /\ ~IsGaussian(kernel)
  /\ ~IsPeriodic(kernel)
  /\ ~IsRandomwalk(kernel)
  /\ Fail(Raise("ValueError", "unknown kernel"))
  /\ UNCHANGED <<time, gp_config, key, kernel, lengthscale, variance_limit, variance_weight,
                 zerosum, period, cov, vals, vecs, gp_basis_funcs, result,
                 coords>>

\* lines 121-130
ZeroSum ==
  /\ pc = "zerosum"
  /\ \E z \in ZerosumChoices :
       /\ zerosum' = z
       /\ cov' = IF z THEN ZeroSumCov(cov) ELSE cov
  /\ pc' = "eigh"
  /\ UNCHANGED <<time, gp_config, key, kernel, lengthscale, variance_limit, variance_weight,
                 period, vals, vecs, gp_basis_funcs, result, err, coords>>

\* line 132; check_finite makes eigh raise ValueError on a NaN matrix
EighStep ==
  /\ pc = "eigh"
  /\ IF cov.nan
       THEN /\ Fail(Raise("ValueError", "array must not contain infs or NaNs"))
            /\ UNCHANGED <<vals, vecs>>
       ELSE /\ \E d \in Eigh(cov.num) :
                 /\ vals' = [i \in 1..Len(d) |-> d[i].val]
                 /\ vecs' = [i \in 1..Len(d) |-> d[i].vec]
            /\ pc' = "cutoff"
            /\ UNCHANGED err
  /\ UNCHANGED <<time, gp_config, key, kernel, lengthscale, variance_limit, variance_weight,
                 zerosum, period, cov, gp_basis_funcs, result, coords>>

\* lines 133-138
PrecisionCutoff ==
  /\ pc = "cutoff"
  /\ vals' = CutPrecision(vals, vals)
  /\ vecs' = CutPrecision(vals, vecs)
  /\ pc' = "truncate"
  /\ UNCHANGED <<time, gp_config, key, kernel, lengthscale, variance_limit, variance_weight,
                 zerosum, period, cov, gp_basis_funcs, result, err, coords>>

\* lines 140-146
Truncate ==
  /\ pc = "truncate"
  /\ \E l \in LimitChoices :
       /\ variance_limit' = l
       /\ IF IsNone(NEigs(vals, l))
            THEN /\ Fail(Raise("IndexError", "index 0 is out of bounds"))
                 /\ UNCHANGED gp_basis_funcs
            ELSE /\ gp_basis_funcs' = Basis(vals, vecs, Get(NEigs(vals, l)))
                 /\ pc' = "returned"
                 /\ UNCHANGED err
  /\ UNCHANGED <<time, gp_config, key, kernel, lengthscale, variance_weight, zerosum,
                 period, cov, vals, vecs, result, coords>>

\* make_gp_basis, lines 173-177
Register ==
  /\ pc = "returned"
  /\ \E k \in KeyVals :
       /\ key' = k
       /\ coords' = (DimName(k) :> RangeIndex(Len(gp_basis_funcs))) @@ coords
       /\ result' = Some([basis |-> gp_basis_funcs, dim |-> DimName(k)])
  /\ pc' = "done"
  /\ UNCHANGED <<time, gp_config, kernel, lengthscale, variance_limit, variance_weight,
                 zerosum, period, cov, vals, vecs, gp_basis_funcs, err>>

Next ==
  \/ Call
  \/ GaussianKernel
  \/ PeriodicKernel
  \/ RandomwalkKernel
  \/ UnknownKernel
  \/ ZeroSum
  \/ EighStep
  \/ PrecisionCutoff
  \/ Truncate
  \/ Register

Spec == Init /\ [][Next]_vars

(***************************************************************************)
(* Properties.                                                             *)
(***************************************************************************)
Returned == pc \in {"returned", "done"}

\* the columns a basis would have for the eigenvalues v under limit l
NumColumns(v, l) == Len(Basis(v, v, Get(NEigs(v, l))))

\* the smallest count k >= 1 of largest eigenvalues whose share of the total
\* is greater than l per cent
SmallestCount(v, l) ==
  SetMin({k \in 1..Len(v) : SeqSum(LastN(v, k)) * 100 > l * SeqSum(v)})

\* sqrt(val) * sum(vec) = 0
ColumnSumsToZero(c) == c.val = 0 \/ SeqSum(c.vec) = 0

\* two fractions of matrices are the same matrix
SameMatrix(a, b) ==
  /\ Len(a.num) = Len(b.num)
  /\ \A i, j \in 1..Len(a.num) : a.num[i][j] * b.den = b.num[i][j] * a.den

\* C1: for variance_limit < 1 and retained eigenvalues that are non-negative
\* and not all zero, the basis is exactly the k columns of the largest
\* eigenvalues, k the smallest count whose share of the total variance is
\* greater than variance_limit.
C1_TruncationRespectsVarianceLimit ==
  (Returned /\ variance_limit < 100 /\ SeqSum(vals) > 0)
    => gp_basis_funcs =
         [i \in 1..SmallestCount(vals, variance_limit) |->
            [val |-> LastN(vals, SmallestCount(vals, variance_limit))[i],
             vec |-> LastN(vecs, SmallestCount(vals, variance_limit))[i]]]

C3_ZeroSumColumns ==
  (Returned /\ zerosum) => \A i \in 1..Len(gp_basis_funcs) : ColumnSumsToZero(gp_basis_funcs[i])

C3_Witness ==
  /\ Returned
  /\ zerosum
  /\ Len(time) = MaxN
  /\ \E i \in 1..Len(gp_basis_funcs) :
       gp_basis_funcs[i].val > 0 /\ SeqSum(gp_basis_funcs[i].vec) = 0
  /\ \E i, j \in 1..Len(time) : SeqSum(cov.num[i]) = 0 /\ cov.num[i][j] # 0

\* C4: the Gaussian branch given a non-empty variance_weight goes on to the
\* covariance iff the weights are as many as the lengthscales and sum to 1;
\* otherwise it raises AssertionError and no basis is produced.
C4_WeightsValidated ==
  [][(pc = "kernel" /\ kernel = "gaussian" /\ Truthy(variance_weight))
       => IF /\ Len(Get(variance_weight)) = Len(lengthscale.ls)
             /\ SeqSum(Get(variance_weight)) = WDen
            THEN pc' = "zerosum" /\ err' = NoErr /\ ~cov'.nan /\ Len(cov'.num) = Len(time)
            ELSE /\ pc' = "raised"
                 /\ err'.type = "AssertionError"
                 /\ cov' = NoCov
                 /\ gp_basis_funcs' = <<>>]_vars

C4_Witness ==
  /\ pc = "raised"
  /\ err = Raise("AssertionError", "sum to 1")
  /\ Truthy(variance_weight)
  /\ Len(Get(variance_weight)) = Len(lengthscale.ls)
  /\ SeqSum(Get(variance_weight)) < WDen

\* C5: the periodic kernel with a single lengthscale (scalar or one-element
\* list), a period and no variance_weight is accepted: the kernel branch does
\* not raise.
C5_PeriodicSingleLengthscaleAccepted ==
  (/\ pc = "raised"
   /\ kernel = "periodic"
   /\ Len(lengthscale.ls) = 1
   /\ ~IsNone(period)
   /\ ~Truthy(variance_weight))
    => err.type \notin {"TypeError", "NotImplementedError", "AssertionError"}

\* C6: the random-walk kernel rejects a lengthscale different from 1 with
\* NotImplementedError.
C6_RandomwalkLengthscaleNotImplemented ==
  (/\ pc = "raised"
   /\ kernel = "randomwalk"
   /\ \E k \in 1..Len(lengthscale.ls) : lengthscale.ls[k] # 1)
    => err.type = "NotImplementedError"

C8_CoordinateRegistered ==
  /\ pc = "done"
       => /\ ~IsNone(result)
          /\ Get(result).basis = gp_basis_funcs
          /\ key = "pop" => Get(result).dim = "gp_pop_basis"
          /\ key = "None" => Get(result).dim = "gp_None_basis"
          /\ DOMAIN coords = {Get(result).dim}
          /\ Len(coords[Get(result).dim]) = Len(Get(result).basis)
          /\ \A i \in 1..Len(Get(result).basis) : coords[Get(result).dim][i] = i - 1
  /\ pc # "done" => (coords = <<>> /\ IsNone(result))

C8_Witness ==
  /\ pc = "done"
  /\ Len(Get(result).basis) = MaxN
  /\ key = "pop"

\* C9: with k lengthscales, the equal weights 1/k each give the covariance
\* that omitting variance_weight gives.
C9_DefaultWeightsAreEqualWeights ==
  (/\ pc = "zerosum"
   /\ kernel = "gaussian"
   /\ \A k \in 1..Len(Get(variance_weight)) :
        Get(variance_weight)[k] * Len(lengthscale.ls) = WDen)
    => SameMatrix(cov, GaussianCov(time, lengthscale.ls, OnesLike(lengthscale.ls)))

\* C10: for the retained eigenvalues (non-negative, not all zero) a smaller
\* variance_limit never yields more columns than a larger one.
C10_ColumnsMonotoneInLimit ==
  (Returned /\ SeqSum(vals) > 0)
    => \A l \in 0..variance_limit : NumColumns(vals, l) <= Len(gp_basis_funcs)

====
